---- MODULE Spec2Model ----
(***************************************************************************)
(* gls: long-format directory lister (src/gls.c lines 748-1135, the        *)
(* multi-file variant, with src/display.c and src/options.c).              *)
(*                                                                         *)
(* C strings are sequences of byte values (1..255, no NUL).  A uid_t or    *)
(* gid_t value is carried as its 32-bit two's-complement image, so an id   *)
(* of 2^32 - 2 is the integer -2: equality of ids is unaffected, and "%d"  *)
(* prints the image.                                                       *)
(***************************************************************************)
EXTENDS Integers, Sequences, FiniteSets, TLC

\* ------------------------------------------------------------------------
\* Bounds of the model
\* ------------------------------------------------------------------------
MaxTargets == 3
MaxCalls == 3
MaxRingCalls == 18
MaxRepeats == 1
MaxTop == 2
MaxStr == 3
MaxMtime == 2
TimeSlack == 2

\* ------------------------------------------------------------------------
\* Program constants
\* ------------------------------------------------------------------------
CACHE_SIZE == 16
NAME_BUF == 256
PATH_MAX == 1024

\* ------------------------------------------------------------------------
\* libc string helpers
\* ------------------------------------------------------------------------
Min(a, b) == IF a < b THEN a ELSE b

\* strncpy(dst, src, n) followed by dst[n] = '\0': the first n bytes of src
strncpy(src, n) == SubSeq(src, 1, Min(Len(src), n))

\* the LC_CTYPE category in force after setlocale(LC_ALL, "") in main: the
\* C/POSIX locale (a UTF-8 locale classifies single bytes the same way on
\* glibc), or a single-byte locale such as ISO-8859-1
VARIABLE locale

Locales == {"C", "ISO-8859-1"}

\* isprint() on an unsigned char: 0x20..0x7E, and in ISO-8859-1 0xA0..0xFF too
isprint(c) ==
    \/ c >= 32 /\ c <= 126
    \/ locale = "ISO-8859-1" /\ c >= 160 /\ c <= 255

\* mutant: a byte that is not printable is left out, not replaced
sanitize_string_drop(src, max_len) ==
    LET RECURSIVE Keep(_)
        Keep(q) ==
            IF q = <<>> THEN <<>>
            ELSE IF isprint(Head(q)) THEN <<Head(q)>> \o Keep(Tail(q))
            ELSE Keep(Tail(q))
    IN Keep(SubSeq(src, 1, Min(Len(src), max_len - 1)))

\* sanitize_string(dest, src, max_len): dest up to its terminating NUL
sanitize_string(src, max_len) ==
    [j \in 1..Min(Len(src), max_len - 1) |->
        IF isprint(src[j]) THEN src[j] ELSE 63]

RECURSIVE DecDigits(_)
DecDigits(n) ==
    IF n < 10 THEN <<48 + n>> ELSE DecDigits(n \div 10) \o <<48 + (n % 10)>>

\* snprintf(buf, len, "%d", v)
snprintf_d(v, len) ==
    strncpy(IF v < 0 THEN <<45>> \o DecDigits(0 - v) ELSE DecDigits(v), len - 1)

\* strcoll() in the C/POSIX locale: byte-wise comparison, sign of the result
RECURSIVE strcoll(_, _)
strcoll(a, b) ==
    IF a = <<>> /\ b = <<>> THEN 0
    ELSE IF a = <<>> THEN -1
    ELSE IF b = <<>> THEN 1
    ELSE IF Head(a) < Head(b) THEN -1
    ELSE IF Head(a) > Head(b) THEN 1
    ELSE strcoll(Tail(a), Tail(b))

\* mode & bit, for a single-bit mask
HasBit(mode, bit) == (mode \div bit) % 2 = 1

\* mode & S_IFMT, as the octal digit pair above the 12 permission bits
FileType(mode) == (mode \div 4096) % 16

S_ISDIR(mode) == FileType(mode) = 4
S_ISLNK(mode) == FileType(mode) = 10
S_ISREG(mode) == FileType(mode) = 8
S_ISCHR(mode) == FileType(mode) = 2
S_ISBLK(mode) == FileType(mode) = 6
S_ISFIFO(mode) == FileType(mode) = 1
S_ISSOCK(mode) == FileType(mode) = 12

\* ------------------------------------------------------------------------
\* Identity cache (gls.c: uid_cache, gid_cache)
\* ------------------------------------------------------------------------
Slots == 0..(CACHE_SIZE - 1)

\* init_caches(): every slot invalid; static storage is zero-filled
EmptyUidCache == [s \in Slots |-> [uid |-> 0, name |-> <<>>, valid |-> FALSE]]
EmptyGidCache == [s \in Slots |-> [gid |-> 0, name |-> <<>>, valid |-> FALSE]]

\* the scan of get_cached_username: slots holding a valid entry for uid
UidHits(cache, uid) == {s \in Slots : cache[s].valid /\ cache[s].uid = uid}
GidHits(cache, gid) == {s \in Slots : cache[s].valid /\ cache[s].gid = gid}

LowestSlot(S) == CHOOSE s \in S : \A t \in S : s <= t

\* mutant: the slot that is filled is never marked valid
get_cached_username_never_valid(cache, next, uid, pw, len) ==
    IF UidHits(cache, uid) # {}
    THEN [cache |-> cache, next |-> next,
          buf |-> strncpy(cache[LowestSlot(UidHits(cache, uid))].name, len - 1),
          called |-> FALSE]
    ELSE LET buf == IF pw.ok THEN sanitize_string(pw.name, len)
                    ELSE snprintf_d(uid, len)
         IN [cache |-> [cache EXCEPT ![next] =
                          [uid |-> uid, name |-> strncpy(buf, NAME_BUF - 1),
                           valid |-> FALSE]],
             next |-> (next + 1) % CACHE_SIZE,
             buf |-> buf,
             called |-> TRUE]

\* mutant: next_uid_slot is not advanced
get_cached_username_no_advance(cache, next, uid, pw, len) ==
    IF UidHits(cache, uid) # {}
    THEN [cache |-> cache, next |-> next,
          buf |-> strncpy(cache[LowestSlot(UidHits(cache, uid))].name, len - 1),
          called |-> FALSE]
    ELSE LET buf == IF pw.ok THEN sanitize_string(pw.name, len)
                    ELSE snprintf_d(uid, len)
         IN [cache |-> [cache EXCEPT ![next] =
                          [uid |-> uid, name |-> strncpy(buf, NAME_BUF - 1),
                           valid |-> TRUE]],
             next |-> next,
             buf |-> buf,
             called |-> TRUE]

\* mutant: a hit also advances next_uid_slot
get_cached_username_hit_advances(cache, next, uid, pw, len) ==
    IF UidHits(cache, uid) # {}
    THEN [cache |-> cache, next |-> (next + 1) % CACHE_SIZE,
          buf |-> strncpy(cache[LowestSlot(UidHits(cache, uid))].name, len - 1),
          called |-> FALSE]
    ELSE LET buf == IF pw.ok THEN sanitize_string(pw.name, len)
                    ELSE snprintf_d(uid, len)
         IN [cache |-> [cache EXCEPT ![next] =
                          [uid |-> uid, name |-> strncpy(buf, NAME_BUF - 1),
                           valid |-> TRUE]],
             next |-> (next + 1) % CACHE_SIZE,
             buf |-> buf,
             called |-> TRUE]

\* get_cached_username(uid, buf, len).  pw is what getpwuid(uid) answers if it
\* is called: [ok |-> FALSE] for NULL (or a NULL pw_name), else the name.
\* Result: the rings after the call, buf, and whether getpwuid was called.
get_cached_username(cache, next, uid, pw, len) ==
    IF UidHits(cache, uid) # {}
    THEN [cache |-> cache, next |-> next,
          buf |-> strncpy(cache[LowestSlot(UidHits(cache, uid))].name, len - 1),
          called |-> FALSE]
    ELSE LET buf == IF pw.ok THEN sanitize_string(pw.name, len)
                    ELSE snprintf_d(uid, len)
         IN [cache |-> [cache EXCEPT ![next] =
                          [uid |-> uid, name |-> strncpy(buf, NAME_BUF - 1),
                           valid |-> TRUE]],
             next |-> (next + 1) % CACHE_SIZE,
             buf |-> buf,
             called |-> TRUE]

\* mutant: the scan of the ring is skipped, every call is a miss
get_cached_groupname_no_scan(cache, next, gid, gr, len) ==
    LET buf == IF gr.ok THEN sanitize_string(gr.name, len)
               ELSE snprintf_d(gid, len)
    IN [cache |-> [cache EXCEPT ![next] =
                     [gid |-> gid, name |-> strncpy(buf, NAME_BUF - 1),
                      valid |-> TRUE]],
        next |-> (next + 1) % CACHE_SIZE,
        buf |-> buf,
        called |-> TRUE]

\* get_cached_groupname(gid, buf, len), gr as pw above for getgrgid(gid)
get_cached_groupname(cache, next, gid, gr, len) ==
    IF GidHits(cache, gid) # {}
    THEN [cache |-> cache, next |-> next,
          buf |-> strncpy(cache[LowestSlot(GidHits(cache, gid))].name, len - 1),
          called |-> FALSE]
    ELSE LET buf == IF gr.ok THEN sanitize_string(gr.name, len)
                    ELSE snprintf_d(gid, len)
         IN [cache |-> [cache EXCEPT ![next] =
                          [gid |-> gid, name |-> strncpy(buf, NAME_BUF - 1),
                           valid |-> TRUE]],
             next |-> (next + 1) % CACHE_SIZE,
             buf |-> buf,
             called |-> TRUE]

\* ------------------------------------------------------------------------
\* Formatter (display.c)
\* ------------------------------------------------------------------------
\* mutant: a special bit shows in lower case whatever the execute bit is
get_permissions_no_upper(mode) ==
    << IF S_ISDIR(mode) THEN "d"
       ELSE IF S_ISLNK(mode) THEN "l"
       ELSE IF S_ISCHR(mode) THEN "c"
       ELSE IF S_ISBLK(mode) THEN "b"
       ELSE IF S_ISFIFO(mode) THEN "p"
       ELSE IF S_ISSOCK(mode) THEN "s"
       ELSE "-",
       IF HasBit(mode, 256) THEN "r" ELSE "-",
       IF HasBit(mode, 128) THEN "w" ELSE "-",
       IF HasBit(mode, 2048)
          THEN (IF HasBit(mode, 64) THEN "s" ELSE "s")
          ELSE (IF HasBit(mode, 64) THEN "x" ELSE "-"),
       IF HasBit(mode, 32) THEN "r" ELSE "-",
       IF HasBit(mode, 16) THEN "w" ELSE "-",
       IF HasBit(mode, 1024)
          THEN (IF HasBit(mode, 8) THEN "s" ELSE "s")
          ELSE (IF HasBit(mode, 8) THEN "x" ELSE "-"),
       IF HasBit(mode, 4) THEN "r" ELSE "-",
       IF HasBit(mode, 2) THEN "w" ELSE "-",
       IF HasBit(mode, 512)
          THEN (IF HasBit(mode, 1) THEN "t" ELSE "t")
          ELSE (IF HasBit(mode, 1) THEN "x" ELSE "-") >>

\* get_permissions(mode, perms): the ten characters of perms
get_permissions(mode) ==
    << IF S_ISDIR(mode) THEN "d"
       ELSE IF S_ISLNK(mode) THEN "l"
       ELSE IF S_ISCHR(mode) THEN "c"
       ELSE IF S_ISBLK(mode) THEN "b"
       ELSE IF S_ISFIFO(mode) THEN "p"
       ELSE IF S_ISSOCK(mode) THEN "s"
       ELSE "-",
       IF HasBit(mode, 256) THEN "r" ELSE "-",
       IF HasBit(mode, 128) THEN "w" ELSE "-",
       IF HasBit(mode, 2048)
          THEN (IF HasBit(mode, 64) THEN "s" ELSE "S")
          ELSE (IF HasBit(mode, 64) THEN "x" ELSE "-"),
       IF HasBit(mode, 32) THEN "r" ELSE "-",
       IF HasBit(mode, 16) THEN "w" ELSE "-",
       IF HasBit(mode, 1024)
          THEN (IF HasBit(mode, 8) THEN "s" ELSE "S")
          ELSE (IF HasBit(mode, 8) THEN "x" ELSE "-"),
       IF HasBit(mode, 4) THEN "r" ELSE "-",
       IF HasBit(mode, 2) THEN "w" ELSE "-",
       IF HasBit(mode, 512)
          THEN (IF HasBit(mode, 1) THEN "t" ELSE "T")
          ELSE (IF HasBit(mode, 1) THEN "x" ELSE "-") >>

\* An off_t byte count is carried as its base-1024 digits, least significant
\* first: <<d0, d1, d2, d3, d4>> is d0 + d1*1024 + ... + d4*1024^4 with
\* d0..d3 in 0..1023.  Below 2^53 the conversion to double and every
\* division by 1024.0 are exact, so the double `size` is the pair of the
\* digits not yet shifted out (whole) and those shifted out (frac, most
\* significant first).
UNITS == <<66, 75, 77, 71, 84>>

\* size >= 1024.0
SizeAtLeast1024(whole) ==
    \/ whole[1] >= 1024
    \/ \E j \in 2..Len(whole) : whole[j] # 0

\* mutant: the loop stops one unit early
SizeLoop_stops_early(whole, frac, u) ==
    LET RECURSIVE Go(_, _, _)
        Go(w, f, n) ==
            IF SizeAtLeast1024(w) /\ n < 3
            THEN Go(Tail(w), <<Head(w)>> \o f, n + 1)
            ELSE [whole |-> w, frac |-> f, u |-> n]
    IN Go(whole, frac, u)

\* while (size >= 1024.0 && u < 4) { size /= 1024.0; u++; }
RECURSIVE SizeLoop(_, _, _)
SizeLoop(whole, frac, u) ==
    IF SizeAtLeast1024(whole) /\ u < 4
    THEN SizeLoop(Tail(whole), <<Head(whole)>> \o frac, u + 1)
    ELSE [whole |-> whole, frac |-> frac, u |-> u]

\* the integer value of the digits left in `size` when the loop has stopped
RECURSIVE WholeValue(_)
WholeValue(whole) ==
    IF whole = <<>> THEN 0 ELSE Head(whole) + 1024 * WholeValue(Tail(whole))

\* ten times a fraction given by its base-1024 digits: the integer part
\* (carry) and the fraction that is left
RECURSIVE TimesTen(_)
TimesTen(frac) ==
    IF frac = <<>> THEN [carry |-> 0, digits |-> <<>>]
    ELSE LET r == TimesTen(Tail(frac))
             v == Head(frac) * 10 + r.carry
         IN [carry |-> v \div 1024, digits |-> <<v % 1024>> \o r.digits]

\* printf("%.1f", size): the exact value rounded to one decimal, a tie going
\* to the even digit
FormatOneDecimal(w, frac) ==
    LET m == TimesTen(frac)
        up == IF m.digits = <<>> THEN FALSE
              ELSE IF m.digits[1] > 512 THEN TRUE
              ELSE IF m.digits[1] < 512 THEN FALSE
              ELSE IF \E j \in 2..Len(m.digits) : m.digits[j] # 0 THEN TRUE
              ELSE m.carry % 2 = 1
        tenths == 10 * w + m.carry + (IF up THEN 1 ELSE 0)
    IN DecDigits(tenths \div 10) \o <<46, 48 + (tenths % 10)>>

\* human_size(bytes, out, outsz)
human_size(bytes, outsz) ==
    LET s == SizeLoop(bytes, <<>>, 0)
        w == WholeValue(s.whole)
    IN strncpy((IF s.u = 0 THEN DecDigits(w) ELSE FormatOneDecimal(w, s.frac))
                 \o <<UNITS[s.u + 1]>>, outsz - 1)

\* the cut-off of get_mod_time, in seconds
HALF_YEAR == 15778800

\* localtime(&mtime): fails only when the year does not fit an int, which
\* no time_t value carried here reaches
localtime(mtime) == [ok |-> TRUE, t |-> mtime]

\* strftime(timestr, len, fmt, tm_info): the calendar fields stay symbolic
strftime(fmt, tm) == [fmt |-> fmt, tm |-> tm]

\* mutant: an age of exactly the cut-off already counts as old
get_mod_time_inclusive(mtime, now) ==
    IF now - mtime >= HALF_YEAR \/ now - mtime < 0
    THEN strftime("%b %e  %Y", mtime)
    ELSE strftime("%b %e %H:%M", mtime)

\* mutant: the test for a modification time in the future is missing
get_mod_time_future_as_recent(mtime, now) ==
    IF now - mtime > HALF_YEAR
    THEN strftime("%b %e  %Y", mtime)
    ELSE strftime("%b %e %H:%M", mtime)

\* get_mod_time(mtime, timestr, len), with time(NULL) answering now
get_mod_time(mtime, now) ==
    LET diff == now - mtime
        tm_info == localtime(mtime)
    IN IF ~tm_info.ok THEN [fmt |-> "??? ?? ??:??", tm |-> <<>>]
       ELSE IF diff > HALF_YEAR \/ diff < 0
       THEN strftime("%b %e  %Y", tm_info.t)
       ELSE strftime("%b %e %H:%M", tm_info.t)

\* ------------------------------------------------------------------------
\* The filesystem the program runs against (its input).  Paths:
\*   f    regular file                 l    symlink to the directory d
\*   d    readable directory           u    directory that cannot be opened
\*   x    does not exist
\* and inside d, in readdir order:
\*   .  ..  b\a (regular, name with a BEL byte)  ..h (regular, hidden)
\*   a (directory)  g (gone before it is probed)  s (symlink to a)
\*   k (symlink to a missing path)  p (fifo)
\*   r (symlink that is gone once it has been probed: stat and readlink fail)
\* ------------------------------------------------------------------------
PF == <<102>>
PL == <<108>>
PD == <<100>>
PU == <<117>>
PX == <<120>>
Targets == {PF, PL, PD, PU, PX}

NmDot == <<46>>
NmDotDot == <<46, 46>>
NmB == <<98, 7>>
NmH == <<46, 46, 104>>
NmA == <<97>>
NmG == <<103>>
NmS == <<115>>
NmK == <<107>>
NmP == <<112>>
NmR == <<114>>

\* snprintf(fullpath, sizeof(fullpath), "%s/%s", path, name)
JoinPath(path, name) == strncpy(path \o <<47>> \o name, PATH_MAX - 1)

MkStat(mode, nlink, uid, gid, size, mtime, blocks) ==
    [ok |-> TRUE,
     st |-> [st_mode |-> mode, st_nlink |-> nlink, st_uid |-> uid,
             st_gid |-> gid, st_size |-> size, st_mtime |-> mtime,
             st_blocks |-> blocks]]

Failed == [ok |-> FALSE]

\* lstat(path, &st): link-aware probe
Lstat(path) ==
    CASE path = PF -> MkStat(33188, 1, 0, 0, 1536, 50, 8)
      [] path = PL -> MkStat(41471, 1, 1000, 1000, 1, 40, 0)
      [] path = PD -> MkStat(16877, 3, 0, 0, 4096, 30, 8)
      [] path = PU -> MkStat(16832, 2, 1000, 0, 4096, 10, 8)
      [] path = JoinPath(PD, NmDot) -> MkStat(16877, 3, 0, 0, 4096, 30, 8)
      [] path = JoinPath(PD, NmDotDot) -> MkStat(16877, 9, 0, 0, 4096, 10, 8)
      [] path = JoinPath(PD, NmB) -> MkStat(33188, 1, 0, 0, 1023, 20, 8)
      [] path = JoinPath(PD, NmH) -> MkStat(35309, 1, 1000, 0, 1024, 30, 5)
      [] path = JoinPath(PD, NmA) -> MkStat(17407, 2, 0, 1000, 4096, 20, 8)
      [] path = JoinPath(PD, NmS) -> MkStat(41471, 1, 0, 0, 1, 10, 0)
      [] path = JoinPath(PD, NmK) -> MkStat(41471, 1, 1000, 1000, 2, 40, 0)
      [] path = JoinPath(PD, NmP) -> MkStat(4516, 1, 0, 0, 0, 40, 0)
      [] path = JoinPath(PD, NmR) -> MkStat(41471, 1, 0, 0, 3, 30, 0)
      [] OTHER -> Failed

\* stat(path, &st): follows a symlink to its target
Stat(path) ==
    CASE path = PL -> Lstat(PD)
      [] path = JoinPath(PD, NmS) -> Lstat(JoinPath(PD, NmA))
      [] path = JoinPath(PD, NmK) -> Failed
      [] path = JoinPath(PD, NmR) -> Failed
      [] OTHER -> Lstat(path)

\* readlink(path, target, len - 1): the stored target bytes, or failure
Readlink(path) ==
    CASE path = PL -> [ok |-> TRUE, target |-> PD]
      [] path = JoinPath(PD, NmS) -> [ok |-> TRUE, target |-> NmA]
      [] path = JoinPath(PD, NmK) -> [ok |-> TRUE, target |-> <<122, 27>>]
      [] OTHER -> Failed

\* opendir(path) succeeds
Opendir(path) == path = PD

\* the names readdir() returns for an open directory, in order
Readdir(path) ==
    IF path = PD
    THEN <<NmDot, NmDotDot, NmB, NmH, NmA, NmG, NmS, NmK, NmP, NmR>>
    ELSE <<>>

\* getpwuid(uid) / getgrgid(gid): the passwd and group databases
Getpwuid(uid) ==
    IF uid = 0 THEN [ok |-> TRUE, name |-> <<114, 111, 111, 116>>] ELSE Failed

Getgrgid(gid) ==
    IF gid = 0 THEN [ok |-> TRUE, name |-> <<119, 104, 101, 101, 108>>]
    ELSE Failed

\* ------------------------------------------------------------------------
\* State
\* ------------------------------------------------------------------------
VARIABLES
    opts,           \* Options: show_all, sort_by_time, show_help, show_version, paths
    pc,             \* position in main / list_directory
    i,              \* loop index of the running loop of main (0-based)
    result,         \* main's result, the exit status once pc = "done"
    file_paths,     \* pointers into opts.paths (1-based indices), in input order
    dir_paths,      \* the same for directories
    dpos,           \* list_directory: names already returned by readdir
    entries,        \* list_directory: entries[0..count-1]
    stats,          \* list_directory: FileStats
    k,              \* list_directory: index of the render loop
    out,            \* lines written to stdout
    err,            \* diagnostics written to stderr (perror)
    sys,            \* filesystem calls made so far
    uid_cache, next_uid_slot, gid_cache, next_gid_slot,
    lookups,        \* number of getpwuid/getgrgid calls made so far
    hist,           \* resolver calls made by the cache harness
    fmt_in,         \* formatter harness: the call about to be made
    fmt_out         \* formatter harness: what the call returned

cacheVars == <<uid_cache, next_uid_slot, gid_cache, next_gid_slot, lookups>>
mainVars == <<opts, pc, i, result, file_paths, dir_paths, dpos, entries, stats,
              k, out, err, sys>>
vars == <<opts, pc, i, result, file_paths, dir_paths, dpos, entries, stats, k,
          out, err, sys, uid_cache, next_uid_slot, gid_cache, next_gid_slot,
          lookups, hist, fmt_in, fmt_out, locale>>

ZeroStats == [regular_files |-> 0, symlinks |-> 0, directories |-> 0,
              dir_symlinks |-> 0, total_blocks |-> 0]

path_count == Len(opts.paths)
file_count == Len(file_paths)
dir_count == Len(dir_paths)

\* ------------------------------------------------------------------------
\* display.c: print_file_entry and what it calls
\* ------------------------------------------------------------------------
\* get_link_target(path, target, len)
get_link_target(path, len) ==
    LET r == Readlink(path)
    IN IF ~r.ok THEN Failed
       ELSE [ok |-> TRUE,
             target |-> strncpy(sanitize_string(strncpy(r.target, len - 1),
                                                PATH_MAX), len - 1)]

\* the path print_file_entry resolves a symlink through
EntryFullPath(path, filename) ==
    IF path = <<>> THEN strncpy(filename, PATH_MAX - 1)
    ELSE JoinPath(path, filename)

\* mutant: a symlink whose target cannot be reached is not counted
CountEntry_broken_uncounted(path, filename, st, s) ==
    IF S_ISLNK(st.st_mode)
    THEN LET t == Stat(EntryFullPath(path, filename))
         IN IF t.ok /\ S_ISDIR(t.st.st_mode)
            THEN [s EXCEPT !.dir_symlinks = @ + 1]
            ELSE IF t.ok THEN [s EXCEPT !.symlinks = @ + 1]
            ELSE s
    ELSE IF S_ISDIR(st.st_mode) THEN [s EXCEPT !.directories = @ + 1]
    ELSE IF S_ISREG(st.st_mode) THEN [s EXCEPT !.regular_files = @ + 1]
    ELSE s

\* the classification counters after one entry (display.c 45-60)
CountEntry(path, filename, st, s) ==
    IF S_ISLNK(st.st_mode)
    THEN LET t == Stat(EntryFullPath(path, filename))
         IN IF t.ok /\ S_ISDIR(t.st.st_mode)
            THEN [s EXCEPT !.dir_symlinks = @ + 1]
            ELSE [s EXCEPT !.symlinks = @ + 1]
    ELSE IF S_ISDIR(st.st_mode) THEN [s EXCEPT !.directories = @ + 1]
    ELSE IF S_ISREG(st.st_mode) THEN [s EXCEPT !.regular_files = @ + 1]
    ELSE s

\* mutant: the arrow is written whether or not readlink succeeded
EntryLine_arrow_always(path, filename, st, user, group) ==
    [kind |-> "entry",
     perms |-> get_permissions(st.st_mode),
     nlink |-> st.st_nlink,
     user |-> user,
     group |-> group,
     name |-> sanitize_string(filename, PATH_MAX),
     link |-> IF S_ISLNK(st.st_mode)
              THEN LET r == get_link_target(EntryFullPath(path, filename),
                                            PATH_MAX)
                   IN IF r.ok THEN r ELSE [ok |-> TRUE, target |-> <<>>]
              ELSE Failed]

\* the line print_file_entry writes
EntryLine(path, filename, st, user, group) ==
    [kind |-> "entry",
     perms |-> get_permissions(st.st_mode),
     nlink |-> st.st_nlink,
     user |-> user,
     group |-> group,
     name |-> sanitize_string(filename, PATH_MAX),
     link |-> IF S_ISLNK(st.st_mode)
              THEN get_link_target(EntryFullPath(path, filename), PATH_MAX)
              ELSE Failed]

\* the filesystem calls of print_file_entry, in order
EntryCalls(path, filename, st) ==
    IF S_ISLNK(st.st_mode)
    THEN << [op |-> "stat", path |-> EntryFullPath(path, filename),
             ok |-> Stat(EntryFullPath(path, filename)).ok],
            [op |-> "readlink", path |-> EntryFullPath(path, filename),
             ok |-> Readlink(EntryFullPath(path, filename)).ok] >>
    ELSE <<>>

\* print_file_entry(path, filename, st, stats) in the state of the rings
\* (uc, un, gc, gn): the counters, the rings and the line after the call
print_file_entry(path, filename, st, s, uc, un, gc, gn) ==
    LET u == get_cached_username(uc, un, st.st_uid, Getpwuid(st.st_uid), NAME_BUF)
        g == get_cached_groupname(gc, gn, st.st_gid, Getgrgid(st.st_gid), NAME_BUF)
    IN [stats |-> CountEntry(path, filename, st, s),
        uc |-> u.cache, un |-> u.next, gc |-> g.cache, gn |-> g.next,
        looked |-> (IF u.called THEN 1 ELSE 0) + (IF g.called THEN 1 ELSE 0),
        calls |-> EntryCalls(path, filename, st),
        line |-> EntryLine(path, filename, st, u.buf, g.buf)]

\* ------------------------------------------------------------------------
\* gls.c: sorting
\* ------------------------------------------------------------------------
\* mutant: in time mode the entry that is not older always goes first
compare_entries_never_equal(ea, eb) ==
    IF opts.sort_by_time
    THEN IF ea.mtime >= eb.mtime THEN -1 ELSE 1
    ELSE strcoll(ea.name, eb.name)

\* mutant: in time mode the older entry goes first
compare_entries_oldest_first(ea, eb) ==
    IF opts.sort_by_time
    THEN IF ea.mtime < eb.mtime THEN -1
         ELSE IF ea.mtime > eb.mtime THEN 1
         ELSE strcoll(ea.name, eb.name)
    ELSE strcoll(ea.name, eb.name)

\* compare_entries(a, b) with sort_options_ptr pointing at opts
compare_entries(ea, eb) ==
    IF opts.sort_by_time
    THEN IF ea.mtime > eb.mtime THEN -1
         ELSE IF ea.mtime < eb.mtime THEN 1
         ELSE strcoll(ea.name, eb.name)
    ELSE strcoll(ea.name, eb.name)

\* qsort(entries, count, sizeof(FileEntry), compare_entries).  The names of
\* one directory are pairwise distinct, so no two entries compare equal and
\* the order qsort produces is the one an insertion sort produces.
RECURSIVE InsertSorted(_, _)
InsertSorted(e, sorted) ==
    IF sorted = <<>> THEN <<e>>
    ELSE IF compare_entries(e, Head(sorted)) <= 0 THEN <<e>> \o sorted
    ELSE <<Head(sorted)>> \o InsertSorted(e, Tail(sorted))

RECURSIVE qsort(_)
qsort(es) ==
    IF es = <<>> THEN <<>>
    ELSE InsertSorted(Head(es), qsort(Tail(es)))

\* ------------------------------------------------------------------------
\* gls.c: main and list_directory
\* ------------------------------------------------------------------------
\* a second lstat() of a path that was probed before: the same answer, or a
\* failure when the object was removed in between
LstatAgain(path) == {Lstat(path), Failed}

\* mutant: headers decided by the number of operands, not of listed targets
show_headers_by_operands == path_count > 1

\* bool show_headers = (dir_count > 1 || file_count > 0)
show_headers == dir_count > 1 \/ file_count > 0

\* if (file_count > 0 || i > 0) printf("\n")
NeedSeparator == file_count > 0 \/ i > 0

\* mutant: result = ret, whatever ret is
MergeResult_overwrite(res, ret) == ret

\* if (ret != 0) result = ret
MergeResult(res, ret) == IF ret # 0 THEN ret ELSE res

\* mutant: the strcmp() test against "." and ".." is missing
Retained_no_pseudo(name, show_all) ==
    ~(~show_all /\ Len(name) > 0 /\ name[1] = 46)

\* the two filters at the head of the readdir loop
Retained(name, show_all) ==
    /\ name # NmDot
    /\ name # NmDotDot
    /\ ~(~show_all /\ Len(name) > 0 /\ name[1] = 46)

\* where main goes once a loop is over
AfterFiles(dc) == IF dc > 0 THEN "dirs" ELSE "done"
AfterClassify(fc, dc) == IF fc > 0 THEN "files" ELSE AfterFiles(dc)
AfterDir(n, dc) == IF n < dc THEN "dirs" ELSE "done"

\* the directory list_directory is working on, and its tag in out/err
CurDirTag == dir_paths[i + 1]
CurDir == opts.paths[CurDirTag]

Emit(tag, line) == Append(out, [t |-> tag, line |-> line])

\* the calls cs, made on behalf of target tag, added to the call log
Called(tag, cs) == sys \o [j \in DOMAIN cs |-> [t |-> tag, call |-> cs[j]]]

\* mutant: the new path is stored in front of the earlier ones
AddPath_front(list, n) == <<n>> \o list

\* dir_paths[dir_count++] = p, file_paths[file_count++] = p
AddPath(list, n) == Append(list, n)

\* mutant: the summary is printed whether or not a header was
NeedSummary_always == TRUE

\* if (!show_header), for the summary
NeedSummary == ~show_headers

\* no formatter call is pending or made
NoCall == fmt_in = <<>> /\ fmt_out = <<>>

Configs ==
    [show_all : BOOLEAN, sort_by_time : BOOLEAN, show_help : BOOLEAN,
     show_version : BOOLEAN,
     paths : UNION {[1..n -> Targets] : n \in 1..MaxTargets}]

Init ==
    /\ opts \in Configs
    /\ pc = "start"
    /\ i = 0
    /\ result = 0
    /\ file_paths = <<>>
    /\ dir_paths = <<>>
    /\ dpos = 0
    /\ entries = <<>>
    /\ stats = ZeroStats
    /\ k = 0
    /\ out = <<>>
    /\ err = <<>>
    /\ sys = <<>>
    /\ uid_cache = EmptyUidCache
    /\ next_uid_slot = 0
    /\ gid_cache = EmptyGidCache
    /\ next_gid_slot = 0
    /\ lookups = 0
    /\ hist = <<>>
    /\ NoCall
    /\ locale \in Locales

\* main 1075-1078
ShowHelp ==
    /\ pc = "start"
    /\ opts.show_help
    /\ out' = Emit(0, [kind |-> "help"])
    /\ pc' = "done"
    /\ UNCHANGED <<opts, i, result, file_paths, dir_paths, dpos, entries, stats,
                   k, err, sys, cacheVars, hist, fmt_in, fmt_out, locale>>

\* main 1080-1083
ShowVersion ==
    /\ pc = "start"
    /\ ~opts.show_help
    /\ opts.show_version
    /\ out' = Emit(0, [kind |-> "version"])
    /\ pc' = "done"
    /\ UNCHANGED <<opts, i, result, file_paths, dir_paths, dpos, entries, stats,
                   k, err, sys, cacheVars, hist, fmt_in, fmt_out, locale>>

\* main 1088-1090
Begin ==
    /\ pc = "start"
    /\ ~opts.show_help
    /\ ~opts.show_version
    /\ pc' = "classify"
    /\ UNCHANGED <<opts, i, result, file_paths, dir_paths, dpos, entries, stats,
                   k, out, err, sys, cacheVars, hist, fmt_in, fmt_out, locale>>

\* mutant: the targets are classified with stat(), which follows links
Classify_follows_links ==
    /\ pc = "classify"
    /\ i < path_count
    /\ LET p == opts.paths[i + 1]
           r == Stat(p)
       IN /\ sys' = Called(i + 1, << [op |-> "lstat", path |-> p, ok |-> r.ok] >>)
          /\ IF r.ok
             THEN /\ IF S_ISDIR(r.st.st_mode)
                     THEN /\ dir_paths' = AddPath(dir_paths, i + 1)
                          /\ file_paths' = file_paths
                     ELSE /\ file_paths' = AddPath(file_paths, i + 1)
                          /\ dir_paths' = dir_paths
                  /\ UNCHANGED <<err, result>>
             ELSE /\ err' = Append(err, [t |-> i + 1, op |-> "lstat", path |-> p])
                  /\ result' = 1
                  /\ UNCHANGED <<file_paths, dir_paths>>
    /\ IF i + 1 < path_count
       THEN /\ i' = i + 1
            /\ pc' = "classify"
       ELSE /\ i' = 0
            /\ pc' = AfterClassify(Len(file_paths'), Len(dir_paths'))
    /\ UNCHANGED <<opts, dpos, entries, stats, k, out, cacheVars, hist, fmt_in, fmt_out, locale>>

\* main 1092-1104, one iteration
Classify ==
    /\ pc = "classify"
    /\ i < path_count
    /\ LET p == opts.paths[i + 1]
           r == Lstat(p)
       IN /\ sys' = Called(i + 1, << [op |-> "lstat", path |-> p, ok |-> r.ok] >>)
          /\ IF r.ok
             THEN /\ IF S_ISDIR(r.st.st_mode)
                     THEN /\ dir_paths' = AddPath(dir_paths, i + 1)
                          /\ file_paths' = file_paths
                     ELSE /\ file_paths' = AddPath(file_paths, i + 1)
                          /\ dir_paths' = dir_paths
                  /\ UNCHANGED <<err, result>>
             ELSE /\ err' = Append(err, [t |-> i + 1, op |-> "lstat", path |-> p])
                  /\ result' = 1
                  /\ UNCHANGED <<file_paths, dir_paths>>
    /\ IF i + 1 < path_count
       THEN /\ i' = i + 1
            /\ pc' = "classify"
       ELSE /\ i' = 0
            /\ pc' = AfterClassify(Len(file_paths'), Len(dir_paths'))
    /\ UNCHANGED <<opts, dpos, entries, stats, k, out, cacheVars, hist, fmt_in, fmt_out, locale>>

\* main 1107-1116, one iteration
RenderFile ==
    /\ pc = "files"
    /\ i < file_count
    /\ LET p == opts.paths[file_paths[i + 1]]
       IN \E r \in LstatAgain(p) :
            IF r.ok
            THEN LET e == print_file_entry(<<>>, p, r.st, ZeroStats, uid_cache,
                                           next_uid_slot, gid_cache, next_gid_slot)
                 IN /\ out' = Emit(file_paths[i + 1], e.line)
                    /\ sys' = Called(file_paths[i + 1],
                                      << [op |-> "lstat", path |-> p,
                                          ok |-> TRUE] >> \o e.calls)
                    /\ uid_cache' = e.uc
                    /\ next_uid_slot' = e.un
                    /\ gid_cache' = e.gc
                    /\ next_gid_slot' = e.gn
                    /\ lookups' = lookups + e.looked
            ELSE /\ sys' = Called(file_paths[i + 1],
                                   << [op |-> "lstat", path |-> p,
                                       ok |-> FALSE] >>)
                 /\ UNCHANGED <<out, cacheVars>>
    /\ IF i + 1 < file_count
       THEN /\ i' = i + 1
            /\ pc' = "files"
       ELSE /\ i' = 0
            /\ pc' = AfterFiles(dir_count)
    /\ UNCHANGED <<opts, result, file_paths, dir_paths, dpos, entries, stats, k,
                   err, hist, fmt_in, fmt_out, locale>>

\* main 1120-1122: head of one iteration of the directory loop
DirSeparator ==
    /\ pc = "dirs"
    /\ i < dir_count
    /\ out' = IF NeedSeparator THEN Emit(CurDirTag, [kind |-> "blank"]) ELSE out
    /\ pc' = "opendir"
    /\ UNCHANGED <<opts, i, result, file_paths, dir_paths, dpos, entries, stats,
                   k, err, sys, cacheVars, hist, fmt_in, fmt_out, locale>>

\* mutant: a directory that cannot be opened ends the program
OpenFails_fatal ==
    /\ err' = Append(err, [t |-> CurDirTag, op |-> "opendir", path |-> CurDir])
    /\ result' = MergeResult(result, 1)
    /\ i' = i + 1
    /\ pc' = "done"
    /\ UNCHANGED <<dpos, entries, stats, k, out>>

\* mutant: the header is printed before the directory is known to open
OpenFails_after_header ==
    /\ err' = Append(err, [t |-> CurDirTag, op |-> "opendir", path |-> CurDir])
    /\ result' = MergeResult(result, 1)
    /\ i' = i + 1
    /\ pc' = AfterDir(i + 1, dir_count)
    /\ out' = IF show_headers
              THEN Emit(CurDirTag, [kind |-> "header", path |-> CurDir])
              ELSE out
    /\ UNCHANGED <<dpos, entries, stats, k>>

\* list_directory 999-1002: perror(path); return 1; and main 1125 on return
OpenFails ==
    /\ err' = Append(err, [t |-> CurDirTag, op |-> "opendir", path |-> CurDir])
    /\ result' = MergeResult(result, 1)
    /\ i' = i + 1
    /\ pc' = AfterDir(i + 1, dir_count)
    /\ UNCHANGED <<dpos, entries, stats, k, out>>

\* list_directory 991-1004
OpenDir ==
    /\ pc = "opendir"
    /\ sys' = Called(CurDirTag, << [op |-> "opendir", path |-> CurDir,
                                    ok |-> Opendir(CurDir)] >>)
    /\ IF Opendir(CurDir)
       THEN /\ pc' = "readdir"
            /\ dpos' = 0
            /\ entries' = <<>>
            /\ stats' = ZeroStats
            /\ k' = 0
            /\ UNCHANGED <<err, result, i, out>>
       ELSE OpenFails
    /\ UNCHANGED <<opts, file_paths, dir_paths, cacheVars, hist, fmt_in, fmt_out, locale>>

\* mutant: the blocks are added before the two filters are applied
ReadEntry_counts_filtered ==
    /\ pc = "readdir"
    /\ dpos < Len(Readdir(CurDir))
    /\ LET name == Readdir(CurDir)[dpos + 1]
           fullpath == JoinPath(CurDir, name)
           r == Lstat(fullpath)
       IN /\ sys' = Called(CurDirTag, << [op |-> "lstat", path |-> fullpath,
                                           ok |-> r.ok] >>)
          /\ IF ~r.ok
             THEN UNCHANGED <<stats, entries>>
             ELSE /\ stats' = [stats EXCEPT
                                 !.total_blocks = @ + r.st.st_blocks]
                  /\ entries' = IF Retained(name, opts.show_all)
                                THEN Append(entries,
                                        [name |-> name, mtime |-> r.st.st_mtime,
                                         st |-> r.st])
                                ELSE entries
    /\ dpos' = dpos + 1
    /\ UNCHANGED <<opts, pc, i, result, file_paths, dir_paths, k, out, err,
                   cacheVars, hist, fmt_in, fmt_out, locale>>

\* list_directory 1006-1032, one iteration of the readdir loop
ReadEntry ==
    /\ pc = "readdir"
    /\ dpos < Len(Readdir(CurDir))
    /\ LET name == Readdir(CurDir)[dpos + 1]
           fullpath == JoinPath(CurDir, name)
           r == Lstat(fullpath)
       IN IF ~Retained(name, opts.show_all)
          THEN UNCHANGED <<sys, stats, entries>>
          ELSE /\ sys' = Called(CurDirTag, << [op |-> "lstat", path |-> fullpath,
                                                ok |-> r.ok] >>)
               /\ IF ~r.ok
                  THEN UNCHANGED <<stats, entries>>
                  ELSE /\ stats' = [stats EXCEPT
                                      !.total_blocks = @ + r.st.st_blocks]
                       /\ entries' = Append(entries,
                              [name |-> name, mtime |-> r.st.st_mtime,
                               st |-> r.st])
    /\ dpos' = dpos + 1
    /\ UNCHANGED <<opts, pc, i, result, file_paths, dir_paths, k, out, err,
                   cacheVars, hist, fmt_in, fmt_out, locale>>

\* mutant: the block-total line is not written
PrintHeader_without_total ==
    /\ pc = "readdir"
    /\ dpos = Len(Readdir(CurDir))
    /\ out' = IF show_headers
              THEN Emit(CurDirTag, [kind |-> "header", path |-> CurDir])
              ELSE out
    /\ pc' = "sort"
    /\ UNCHANGED <<opts, i, result, file_paths, dir_paths, dpos, entries, stats,
                   k, err, sys, cacheVars, hist, fmt_in, fmt_out, locale>>

\* list_directory 1034-1039: readdir returned NULL
PrintHeader ==
    /\ pc = "readdir"
    /\ dpos = Len(Readdir(CurDir))
    /\ out' = (IF show_headers
               THEN Emit(CurDirTag, [kind |-> "header", path |-> CurDir])
               ELSE out)
              \o << [t |-> CurDirTag,
                     line |-> [kind |-> "total",
                               n |-> stats.total_blocks \div 2]] >>
    /\ pc' = "sort"
    /\ UNCHANGED <<opts, i, result, file_paths, dir_paths, dpos, entries, stats,
                   k, err, sys, cacheVars, hist, fmt_in, fmt_out, locale>>

\* mutant: the entries are left in readdir order
Sort_skipped ==
    /\ pc = "sort"
    /\ entries' = entries
    /\ k' = 0
    /\ pc' = IF Len(entries) > 0 THEN "render" ELSE "summary"
    /\ UNCHANGED <<opts, i, result, file_paths, dir_paths, dpos, stats, out, err,
                   sys, cacheVars, hist, fmt_in, fmt_out, locale>>

\* list_directory 1041-1043
Sort ==
    /\ pc = "sort"
    /\ entries' = qsort(entries)
    /\ k' = 0
    /\ pc' = IF Len(entries) > 0 THEN "render" ELSE "summary"
    /\ UNCHANGED <<opts, i, result, file_paths, dir_paths, dpos, stats, out, err,
                   sys, cacheVars, hist, fmt_in, fmt_out, locale>>

\* list_directory 1045-1048, one iteration
RenderEntry ==
    /\ pc = "render"
    /\ k < Len(entries)
    /\ LET e == print_file_entry(CurDir, entries[k + 1].name, entries[k + 1].st,
                                 stats, uid_cache, next_uid_slot, gid_cache,
                                 next_gid_slot)
       IN /\ out' = Emit(CurDirTag, e.line)
          /\ stats' = e.stats
          /\ sys' = Called(CurDirTag, e.calls)
          /\ uid_cache' = e.uc
          /\ next_uid_slot' = e.un
          /\ gid_cache' = e.gc
          /\ next_gid_slot' = e.gn
          /\ lookups' = lookups + e.looked
    /\ k' = k + 1
    /\ pc' = IF k + 1 < Len(entries) THEN "render" ELSE "summary"
    /\ UNCHANGED <<opts, i, result, file_paths, dir_paths, dpos, entries, err,
                   hist, fmt_in, fmt_out, locale>>

\* list_directory 1050-1060, and main 1125 when it returns 0
Summary ==
    /\ pc = "summary"
    /\ out' = IF NeedSummary
              THEN Emit(CurDirTag,
                        [kind |-> "summary",
                         regular_files |-> stats.regular_files,
                         directories |-> stats.directories,
                         symlinks |-> stats.symlinks,
                         dir_symlinks |-> stats.dir_symlinks])
              ELSE out
    /\ entries' = <<>>
    /\ result' = MergeResult(result, 0)
    /\ i' = i + 1
    /\ pc' = AfterDir(i + 1, dir_count)
    /\ UNCHANGED <<opts, file_paths, dir_paths, dpos, stats, k, err, sys,
                   cacheVars, hist, fmt_in, fmt_out, locale>>

Next ==
    \/ ShowHelp
    \/ ShowVersion
    \/ Begin
    \/ Classify
    \/ RenderFile
    \/ DirSeparator
    \/ OpenDir
    \/ ReadEntry
    \/ PrintHeader
    \/ Sort
    \/ RenderEntry
    \/ Summary

Spec == Init /\ [][Next]_vars

\* ------------------------------------------------------------------------
\* Vocabulary of the properties of main and list_directory
\* ------------------------------------------------------------------------
\* main has returned after working through its targets
Ran == pc = "done" /\ ~opts.show_help /\ ~opts.show_version

TargetIdx == 1..path_count

\* what the filesystem holds for target n
ProbeOK(n) == n \in TargetIdx /\ Lstat(opts.paths[n]).ok
IsDirTarget(n) == ProbeOK(n) /\ S_ISDIR(Lstat(opts.paths[n]).st.st_mode)
IsFileTarget(n) == ProbeOK(n) /\ ~S_ISDIR(Lstat(opts.paths[n]).st.st_mode)
OpenOK(n) == IsDirTarget(n) /\ Opendir(opts.paths[n])
TargetFailed(n) ==
    n \in TargetIdx /\ (~ProbeOK(n) \/ (IsDirTarget(n) /\ ~OpenOK(n)))

NumDirs == Cardinality({n \in TargetIdx : IsDirTarget(n)})
NumFiles == Cardinality({n \in TargetIdx : IsFileTarget(n)})

\* positions in stdout of the lines of one kind written for target n
Lines(n, kind) == {j \in DOMAIN out : out[j].t = n /\ out[j].line.kind = kind}

SeqRange(q) == {q[j] : j \in DOMAIN q}

\* a call on the path of target n itself failed
OwnFailure(n) ==
    \E j \in DOMAIN sys :
        sys[j].t = n /\ sys[j].call.path = opts.paths[n] /\ ~sys[j].call.ok

\* the names a listing of path must show
Listable(path, show_all) ==
    {nm \in SeqRange(Readdir(path)) :
        /\ nm \notin {NmDot, NmDotDot}
        /\ (show_all \/ nm[1] # 46)
        /\ Lstat(JoinPath(path, nm)).ok}

RenderedFile(n) ==
    /\ Cardinality(Lines(n, "entry")) = 1
    /\ \A j \in Lines(n, "entry") :
          out[j].line.name = sanitize_string(opts.paths[n], PATH_MAX)

RenderedDir(n) ==
    /\ Cardinality(Lines(n, "total")) = 1
    /\ Cardinality(Lines(n, "entry")) =
          Cardinality(Listable(opts.paths[n], opts.show_all))
    /\ {out[j].line.name : j \in Lines(n, "entry")} =
          {sanitize_string(nm, PATH_MAX) :
              nm \in Listable(opts.paths[n], opts.show_all)}

\* ------------------------------------------------------------------------
\* C1: the exit status is 1 exactly when some target failed its lstat or,
\* being a directory, its opendir; probes that fail inside a directory do not
\* count; and a nonzero status is never reset.
\* ------------------------------------------------------------------------
C1_ExitStatus ==
    /\ [](pc = "done" =>
            result = IF Ran /\ \E n \in TargetIdx : TargetFailed(n)
                     THEN 1 ELSE 0)
    /\ [][result # 0 => result' # 0]_vars

\* a failing target is followed by a directory that is listed in full, one of
\* whose entries could not be probed
C1_Witness ==
    /\ Ran
    /\ result = 1
    /\ \E n, m \in TargetIdx :
          /\ n < m
          /\ TargetFailed(n)
          /\ OpenOK(m)
          /\ Lines(m, "total") # {}
          /\ \E j \in DOMAIN sys :
                sys[j].t = m /\ sys[j].call.op = "lstat" /\ ~sys[j].call.ok

\* ------------------------------------------------------------------------
\* C2: a failing target does not stop the run: every target is classified,
\* and every target none of whose own probes or opens failed is rendered, a
\* file as one entry line and a directory as a listing.
\* ------------------------------------------------------------------------
C2_FailureDoesNotStop ==
    Ran =>
      \A n \in TargetIdx :
        /\ IsDirTarget(n) <=> n \in SeqRange(dir_paths)
        /\ IsFileTarget(n) <=> n \in SeqRange(file_paths)
        /\ ~ProbeOK(n) <=> \E j \in DOMAIN err : err[j].t = n /\ err[j].op = "lstat"
        /\ ~OwnFailure(n) =>
              IF IsFileTarget(n) THEN RenderedFile(n) ELSE RenderedDir(n)

\* the first target fails and a later file and a later directory are rendered
C2_Witness ==
    /\ Ran
    /\ TargetFailed(1)
    /\ \E n, m \in TargetIdx :
          /\ IsFileTarget(n) /\ ~OwnFailure(n) /\ RenderedFile(n)
          /\ IsDirTarget(m) /\ ~OwnFailure(m) /\ RenderedDir(m)

\* ------------------------------------------------------------------------
\* C3: every line of a file target precedes every line of a directory
\* target, and the lines of file targets, and of directory targets, follow
\* the input order.
\* ------------------------------------------------------------------------
C3_FilesBeforeDirs ==
    \A a, b \in DOMAIN out :
        a < b =>
          /\ ~(IsDirTarget(out[a].t) /\ IsFileTarget(out[b].t))
          /\ IsFileTarget(out[a].t) /\ IsFileTarget(out[b].t)
                => out[a].t < out[b].t
          /\ IsDirTarget(out[a].t) /\ IsDirTarget(out[b].t)
                => out[a].t <= out[b].t

\* directory, file, directory on input; all three rendered
C3_Witness ==
    /\ Ran
    /\ OpenOK(1) /\ IsFileTarget(2) /\ OpenOK(3)
    /\ Lines(1, "total") # {} /\ Lines(2, "entry") # {} /\ Lines(3, "total") # {}

\* ------------------------------------------------------------------------
\* C4 as stated: a header is printed for a directory target if and only if
\* more than one target was classified a directory or at least one a file.
\* ------------------------------------------------------------------------
C4_Original ==
    Ran =>
      \A n \in TargetIdx :
        IsDirTarget(n) =>
          (Lines(n, "header") # {} <=> (NumDirs > 1 \/ NumFiles >= 1))

\* C4 amended: the same, for a directory target that was opened successfully
\* (a directory that cannot be opened gets no header, yet counts as a
\* directory for the headers of the others).
C4_HeaderIff ==
    Ran =>
      \A n \in TargetIdx :
        OpenOK(n) =>
          (Lines(n, "header") # {} <=> (NumDirs > 1 \/ NumFiles >= 1))

\* one directory is listed under a header because another target is a
\* directory that cannot be opened, next to a target whose probe failed
C4_Witness ==
    /\ Ran
    /\ NumFiles = 0
    /\ \E n, m, x \in TargetIdx :
          /\ OpenOK(n) /\ Lines(n, "header") # {}
          /\ IsDirTarget(m) /\ ~OpenOK(m) /\ Lines(m, "header") = {}
          /\ ~ProbeOK(x)

\* ------------------------------------------------------------------------
\* C5: for a directory that was opened, the summary is printed exactly when
\* no header was; never both; and never a summary for a file target.
\* ------------------------------------------------------------------------
C5_SummaryIffNoHeader ==
    /\ \A n \in TargetIdx :
          ~(Lines(n, "header") # {} /\ Lines(n, "summary") # {})
    /\ \A j \in DOMAIN out :
          out[j].line.kind = "summary" => OpenOK(out[j].t)
    /\ Ran =>
         \A n \in TargetIdx :
           OpenOK(n) =>
             /\ Lines(n, "summary") # {} <=> Lines(n, "header") = {}
             /\ Cardinality(Lines(n, "summary")) <= 1
             /\ Cardinality(Lines(n, "header")) <= 1

\* two operands, one directory listed with a summary and without a header
C5_Witness ==
    /\ Ran
    /\ path_count > 1
    /\ \E n \in TargetIdx :
          OpenOK(n) /\ Lines(n, "summary") # {} /\ Lines(n, "header") = {}

\* ------------------------------------------------------------------------
\* C6 as stated: the first block that produces output is never preceded by
\* a blank line, and every later directory block is.
\* ------------------------------------------------------------------------
\* the first line of the block of a directory target
BlockStart(j) ==
    /\ out[j].line.kind \in {"header", "total"}
    /\ \A a \in DOMAIN out :
          a < j /\ out[a].t = out[j].t => out[a].line.kind = "blank"

C6_Separator ==
    Ran =>
      /\ out # <<>> => out[1].line.kind # "blank"
      /\ \A j \in DOMAIN out :
            j > 1 /\ BlockStart(j) => out[j - 1].line.kind = "blank"

\* ------------------------------------------------------------------------
\* C7: the collected entries never include "." or ".."; without show_all
\* none begins with "."; with show_all they are all the other names readdir
\* returned whose lstat succeeded.
\* ------------------------------------------------------------------------
C7_HiddenFilter ==
    /\ \A j \in DOMAIN entries :
          /\ entries[j].name \notin {NmDot, NmDotDot}
          /\ ~opts.show_all => entries[j].name[1] # 46
    /\ pc = "sort" /\ opts.show_all =>
          {entries[j].name : j \in DOMAIN entries} =
             {nm \in SeqRange(Readdir(CurDir)) :
                 /\ nm \notin {NmDot, NmDotDot}
                 /\ Lstat(JoinPath(CurDir, nm)).ok}

\* with show_all, a dotfile was collected and the unprobeable name was not
C7_Witness ==
    /\ pc = "sort"
    /\ opts.show_all
    /\ NmH \in {entries[j].name : j \in DOMAIN entries}
    /\ NmG \notin {entries[j].name : j \in DOMAIN entries}
    /\ NmG \in SeqRange(Readdir(CurDir))

\* ------------------------------------------------------------------------
\* C8: a directory that cannot be opened makes list_directory return 1 with
\* no header, total, entry or summary line; main records the failure and
\* goes on to the remaining directories.
\* ------------------------------------------------------------------------
C8_OpenFailure ==
    /\ \A j \in DOMAIN out :
          IsDirTarget(out[j].t) /\ ~OpenOK(out[j].t)
             => out[j].line.kind = "blank"
    /\ Ran =>
         \A n \in TargetIdx :
           IsDirTarget(n) =>
             /\ \E j \in DOMAIN sys : sys[j].t = n /\ sys[j].call.op = "opendir"
             /\ ~OpenOK(n) =>
                   /\ result = 1
                   /\ \E j \in DOMAIN err :
                         err[j].t = n /\ err[j].op = "opendir"

\* a directory that cannot be opened comes before one that is listed
C8_Witness ==
    /\ Ran
    /\ \E n, m \in TargetIdx :
          /\ n < m
          /\ IsDirTarget(n) /\ ~OpenOK(n)
          /\ OpenOK(m) /\ RenderedDir(m)

\* ------------------------------------------------------------------------
\* The identity resolver on its own: get_username and get_groupname called
\* in any order after init_caches
\* ------------------------------------------------------------------------
\* get_username(uid, username, sizeof(username)) with getpwuid answering pw
CallUsername(uid, pw) ==
    LET r == get_cached_username(uid_cache, next_uid_slot, uid, pw, NAME_BUF)
    IN /\ uid_cache' = r.cache
       /\ next_uid_slot' = r.next
       /\ lookups' = lookups + (IF r.called THEN 1 ELSE 0)
       /\ hist' = Append(hist, [kind |-> "user", id |-> uid, buf |-> r.buf,
                                called |-> r.called,
                                found |-> r.called /\ pw.ok])
       /\ UNCHANGED <<gid_cache, next_gid_slot, mainVars, fmt_in, fmt_out, locale>>

\* get_groupname(gid, groupname, sizeof(groupname)) with getgrgid answering gr
CallGroupname(gid, gr) ==
    LET r == get_cached_groupname(gid_cache, next_gid_slot, gid, gr, NAME_BUF)
    IN /\ gid_cache' = r.cache
       /\ next_gid_slot' = r.next
       /\ lookups' = lookups + (IF r.called THEN 1 ELSE 0)
       /\ hist' = Append(hist, [kind |-> "group", id |-> gid, buf |-> r.buf,
                                called |-> r.called,
                                found |-> r.called /\ gr.ok])
       /\ UNCHANGED <<uid_cache, next_uid_slot, mainVars, fmt_in, fmt_out, locale>>

\* ids the harness resolves (-2 is the id 2^32 - 2) and what the databases
\* may answer for any of them: no entry, or a name with a control byte
HarnessIds == {0, 1000, -2}
DbAnswers == {Failed, [ok |-> TRUE, name |-> <<97, 7, 98>>]}

IdleMain(at) ==
    /\ opts = [show_all |-> FALSE, sort_by_time |-> FALSE, show_help |-> FALSE,
               show_version |-> FALSE, paths |-> <<PD>>]
    /\ pc = at
    /\ i = 0
    /\ result = 0
    /\ file_paths = <<>>
    /\ dir_paths = <<>>
    /\ dpos = 0
    /\ entries = <<>>
    /\ stats = ZeroStats
    /\ k = 0
    /\ out = <<>>
    /\ err = <<>>
    /\ sys = <<>>

\* init_caches()
init_caches ==
    /\ uid_cache = EmptyUidCache
    /\ next_uid_slot = 0
    /\ gid_cache = EmptyGidCache
    /\ next_gid_slot = 0
    /\ lookups = 0
    /\ hist = <<>>

InitCache ==
    IdleMain("resolver") /\ init_caches /\ NoCall /\ locale \in Locales

get_username ==
    /\ pc = "resolver"
    /\ Len(hist) < MaxCalls
    /\ \E uid \in HarnessIds, pw \in DbAnswers : CallUsername(uid, pw)

get_groupname ==
    /\ pc = "resolver"
    /\ Len(hist) < MaxCalls
    /\ \E gid \in HarnessIds, gr \in DbAnswers : CallGroupname(gid, gr)

NextCache ==
    \/ get_username
    \/ get_groupname

SpecCache == InitCache /\ [][NextCache]_vars

\* ------------------------------------------------------------------------
\* The user ring driven past its capacity: ids 0, 1, 2, ... each resolved
\* for the first time in this order, with up to MaxRepeats repeated
\* resolutions of the first or of the latest id in between
\* ------------------------------------------------------------------------
HistIds == {hist[j].id : j \in DOMAIN hist}
Repeats == Len(hist) - Cardinality(HistIds)

InitRing == IdleMain("ring") /\ init_caches /\ NoCall /\ locale \in Locales

ResolveFresh ==
    /\ pc = "ring"
    /\ Len(hist) < MaxRingCalls
    /\ CallUsername(Cardinality(HistIds), Getpwuid(Cardinality(HistIds)))

ResolveAgain ==
    /\ pc = "ring"
    /\ Len(hist) < MaxRingCalls
    /\ hist # <<>>
    /\ Repeats < MaxRepeats
    /\ \E uid \in {hist[1].id, hist[Len(hist)].id} :
          CallUsername(uid, Getpwuid(uid))

NextRing ==
    \/ ResolveFresh
    \/ ResolveAgain

SpecRing == InitRing /\ [][NextRing]_vars

\* ------------------------------------------------------------------------
\* C9: resolving the same id twice in succession through the same resolver
\* calls the lookup at most once: the second resolution is a hit, does not
\* call the lookup, and returns the name the first one returned.
\* ------------------------------------------------------------------------
InSuccession(a, b) ==
    /\ a < b
    /\ hist[a].kind = hist[b].kind
    /\ hist[a].id = hist[b].id
    /\ \A c \in DOMAIN hist : a < c /\ c < b => hist[c].kind # hist[a].kind

C9_SecondIsHit ==
    /\ \A a, b \in DOMAIN hist :
          InSuccession(a, b) => ~hist[b].called /\ hist[b].buf = hist[a].buf
    /\ lookups = Cardinality({j \in DOMAIN hist : hist[j].called})

\* an id is looked up, found under a name, and resolved again at once
C9_Witness ==
    /\ Len(hist) >= 2
    /\ InSuccession(1, 2)
    /\ hist[1].called
    /\ hist[1].buf = <<97, 63, 98>>
    /\ lookups = 1

\* ------------------------------------------------------------------------
\* C10: from an empty ring, after CACHE_SIZE + 1 = 17 pairwise distinct ids
\* the first is no longer cached and the 2nd to 17th are; resolving the
\* first again calls the lookup and evicts the second.
\* ------------------------------------------------------------------------
Overfull == CACHE_SIZE + 1

FirstAllDistinct ==
    /\ Len(hist) >= Overfull
    /\ Cardinality({hist[j].id : j \in 1..Overfull}) = Overfull

Cached(uid) == UidHits(uid_cache, uid) # {}

C10_FifoEviction ==
    /\ Len(hist) = Overfull /\ FirstAllDistinct =>
          /\ ~Cached(hist[1].id)
          /\ \A j \in 2..Overfull : Cached(hist[j].id)
    /\ Len(hist) = Overfull + 1 /\ FirstAllDistinct
         /\ hist[Overfull + 1].id = hist[1].id =>
          /\ hist[Overfull + 1].called
          /\ Cached(hist[1].id)
          /\ ~Cached(hist[2].id)
          /\ \A j \in 3..Overfull : Cached(hist[j].id)

\* the first id has been resolved again after 17 distinct ones
C10_Witness ==
    /\ Len(hist) = Overfull + 1
    /\ FirstAllDistinct
    /\ hist[Overfull + 1].id = hist[1].id
    /\ hist[Overfull + 1].called
    /\ lookups = Overfull + 1

\* ------------------------------------------------------------------------
\* C11: after any sequence of get_username and get_groupname calls that
\* follows init_caches, no id is held by two valid slots of the same ring.
\* ------------------------------------------------------------------------
C11_OneSlotPerId ==
    /\ \A s, t \in Slots :
          uid_cache[s].valid /\ uid_cache[t].valid
            /\ uid_cache[s].uid = uid_cache[t].uid => s = t
    /\ \A s, t \in Slots :
          gid_cache[s].valid /\ gid_cache[t].valid
            /\ gid_cache[s].gid = gid_cache[t].gid => s = t

\* a group id was resolved twice, a user id in between, and each ring holds
\* the id in exactly one slot
C11_Witness ==
    /\ Len(hist) = 3
    /\ hist[1].kind = "group" /\ hist[2].kind = "user" /\ hist[3].kind = "group"
    /\ hist[1].id = 1000 /\ hist[2].id = 1000 /\ hist[3].id = 1000
    /\ Cardinality(GidHits(gid_cache, 1000)) = 1
    /\ Cardinality(UidHits(uid_cache, 1000)) = 1

\* ------------------------------------------------------------------------
\* C12 as stated: when the lookup finds no name the resolver returns, and
\* caches, the decimal string of the id, for every id of the unsigned 32-bit
\* type, ids of 2^31 and above included.
\* ------------------------------------------------------------------------
\* the decimal digits of the uid_t / gid_t value whose 32-bit image is u
\* (for u < 0 the value is 2^32 + u = 4294967290 + (u + 6))
UnsignedDecimal(u) ==
    IF u >= 0 THEN DecDigits(u)
    ELSE DecDigits(429496729 + ((u + 6) \div 10)) \o <<48 + ((u + 6) % 10)>>

\* the slot written by the miss that was the latest call
LastFilled ==
    IF hist[Len(hist)].kind = "user"
    THEN uid_cache[(next_uid_slot + CACHE_SIZE - 1) % CACHE_SIZE]
    ELSE gid_cache[(next_gid_slot + CACHE_SIZE - 1) % CACHE_SIZE]

C12_DecimalFallback ==
    /\ \A j \in DOMAIN hist :
          hist[j].called /\ ~hist[j].found =>
             hist[j].buf = UnsignedDecimal(hist[j].id)
    /\ hist # <<>> /\ hist[Len(hist)].called /\ ~hist[Len(hist)].found =>
          LastFilled.name = UnsignedDecimal(hist[Len(hist)].id)

\* ------------------------------------------------------------------------
\* The formatters of display.c on their own: one call of get_permissions,
\* human_size, get_mod_time or sanitize_string on an input drawn from a
\* bounded set
\* ------------------------------------------------------------------------
\* every st_mode: 16 values of the type field, 4096 of the permission bits
Modes == 0..65535

\* byte counts: digits at and next to the points where the printed decimal
\* changes, and a top digit of 0..MaxTop, or of 1024 and more, where a fifth
\* division would be due
SizeDigits == {0, 1, 51, 52, 256, 512, 768, 1023}
TopDigits == 0..MaxTop \cup {1024, 1536}
Sizes ==
    {<<d0, d1, d2, d3, d4>> :
        d0 \in SizeDigits, d1 \in SizeDigits, d2 \in SizeDigits,
        d3 \in SizeDigits, d4 \in TopDigits}

\* clock values, and ages around 0 and around the cut-off
Nows == {20000000, 1762300800}
Ages ==
    {base + e : base \in {0, HALF_YEAR}, e \in (0 - TimeSlack)..TimeSlack}

\* names: control bytes, printable ASCII, DEL and bytes above 0x7F
NameBytes == {7, 32, 63, 65, 126, 127, 160, 233}
Names == UNION {[1..n -> NameBytes] : n \in 0..MaxStr}
BufLens == {1, 3, PATH_MAX}

FormatCalls ==
    [fn : {"get_permissions"}, mode : Modes]
      \cup [fn : {"human_size"}, bytes : Sizes]
      \cup {[fn |-> "get_mod_time", mtime |-> now - age, now |-> now] :
               now \in Nows, age \in Ages}
      \cup [fn : {"sanitize_string"}, src : Names, max_len : BufLens]

InitFormat ==
    /\ IdleMain("format")
    /\ init_caches
    /\ locale \in Locales
    /\ fmt_in \in FormatCalls
    /\ fmt_out = <<>>

Returned(fn) == pc = "formatted" /\ fmt_in.fn = fn

FormatDone(v) ==
    /\ fmt_out' = v
    /\ pc' = "formatted"
    /\ UNCHANGED <<opts, i, result, file_paths, dir_paths, dpos, entries,
                   stats, k, out, err, sys, cacheVars, hist, fmt_in, locale>>

\* get_permissions(st->st_mode, perms)
CallGetPermissions ==
    /\ pc = "format"
    /\ fmt_in.fn = "get_permissions"
    /\ FormatDone(get_permissions(fmt_in.mode))

\* human_size((long long)st->st_size, display_size, sizeof(display_size)-1)
CallHumanSize ==
    /\ pc = "format"
    /\ fmt_in.fn = "human_size"
    /\ FormatDone(human_size(fmt_in.bytes, 31))

\* get_mod_time(st->st_mtime, timestr, sizeof(timestr))
CallGetModTime ==
    /\ pc = "format"
    /\ fmt_in.fn = "get_mod_time"
    /\ FormatDone(get_mod_time(fmt_in.mtime, fmt_in.now))

\* sanitize_string(dest, src, max_len)
CallSanitizeString ==
    /\ pc = "format"
    /\ fmt_in.fn = "sanitize_string"
    /\ FormatDone(sanitize_string(fmt_in.src, fmt_in.max_len))

NextFormat ==
    \/ CallGetPermissions
    \/ CallHumanSize
    \/ CallGetModTime
    \/ CallSanitizeString

SpecFormat == InitFormat /\ [][NextFormat]_vars

\* ------------------------------------------------------------------------
\* C13 as stated: position 0 of the permission string is 'd', 'l', 'c',
\* 'b', 'p', 's' or '-' for a directory, symlink, character device, block
\* device, fifo, socket or regular file, and '?' for any other type.
\* ------------------------------------------------------------------------
TypeChar(mode) ==
    CASE S_ISDIR(mode) -> "d"
      [] S_ISLNK(mode) -> "l"
      [] S_ISCHR(mode) -> "c"
      [] S_ISBLK(mode) -> "b"
      [] S_ISFIFO(mode) -> "p"
      [] S_ISSOCK(mode) -> "s"
      [] S_ISREG(mode) -> "-"
      [] OTHER -> "?"

C13_TypeChar ==
    Returned("get_permissions") => fmt_out[1] = TypeChar(fmt_in.mode)

\* ------------------------------------------------------------------------
\* C14: for all 4096 combinations of the 12 permission bits the string has
\* 10 characters; positions 3, 6 and 9 are s/s/t when the special bit and
\* the execute bit are set, S/S/T when only the special bit is, x when only
\* the execute bit is, - when neither; a read or write position shows its
\* own bit only.
\* ------------------------------------------------------------------------
ExecChar(special, exec, lower, upper) ==
    IF special /\ exec THEN lower
    ELSE IF special THEN upper
    ELSE IF exec THEN "x"
    ELSE "-"

BitChar(set, c) == IF set THEN c ELSE "-"

C14_PermissionBits ==
    Returned("get_permissions") =>
      LET m == fmt_in.mode
          B(b) == HasBit(m, b)
      IN /\ Len(fmt_out) = 10
         /\ fmt_out[2] = BitChar(B(256), "r")
         /\ fmt_out[3] = BitChar(B(128), "w")
         /\ fmt_out[4] = ExecChar(B(2048), B(64), "s", "S")
         /\ fmt_out[5] = BitChar(B(32), "r")
         /\ fmt_out[6] = BitChar(B(16), "w")
         /\ fmt_out[7] = ExecChar(B(1024), B(8), "s", "S")
         /\ fmt_out[8] = BitChar(B(4), "r")
         /\ fmt_out[9] = BitChar(B(2), "w")
         /\ fmt_out[10] = ExecChar(B(512), B(1), "t", "T")

\* set-user-id without execute, set-group-id with execute, sticky without
C14_Witness ==
    /\ Returned("get_permissions")
    /\ fmt_in.mode % 4096 = 2048 + 1024 + 512 + 256 + 8
    /\ fmt_out[4] = "S" /\ fmt_out[7] = "s" /\ fmt_out[10] = "T"

\* ------------------------------------------------------------------------
\* C15: for a non-negative byte count human_size divides by 1024 while the
\* value is at least 1024 and fewer than 4 divisions were made; the suffix
\* is B, K, M, G or T by the number of divisions; B has no decimals, the
\* others one.  0 is "0B", 1023 "1023B", 1024 "1.0K", 1536 "1.5K" and
\* 1073741824 "1.0G".
\* ------------------------------------------------------------------------
\* the number of divisions the claim describes, from the byte count alone
Divisions(b) ==
    IF b[5] # 0 THEN 4
    ELSE IF b[4] # 0 THEN 3
    ELSE IF b[3] # 0 THEN 2
    ELSE IF b[2] # 0 THEN 1
    ELSE 0

IsDigit(c) == c >= 48 /\ c <= 57

C15_HumanSize ==
    Returned("human_size") =>
      LET b == fmt_in.bytes
          u == Divisions(b)
          n == Len(fmt_out)
          q == b[u + 1]
      IN /\ fmt_out[n] = <<66, 75, 77, 71, 84>>[u + 1]
         /\ u = 0 => fmt_out = DecDigits(q) \o <<66>>
         /\ u > 0 =>
               /\ fmt_out[n - 2] = 46
               /\ IsDigit(fmt_out[n - 1])
               /\ SubSeq(fmt_out, 1, n - 3) \in {DecDigits(q), DecDigits(q + 1)}
         /\ b = <<0, 0, 0, 0, 0>> => fmt_out = <<48, 66>>
         /\ b = <<1023, 0, 0, 0, 0>> => fmt_out = <<49, 48, 50, 51, 66>>
         /\ b = <<0, 1, 0, 0, 0>> => fmt_out = <<49, 46, 48, 75>>
         /\ b = <<512, 1, 0, 0, 0>> => fmt_out = <<49, 46, 53, 75>>
         /\ b = <<0, 0, 0, 1, 0>> => fmt_out = <<49, 46, 48, 71>>

\* 1536 * 1024^4 bytes: four divisions, then T although 1536 >= 1024
C15_Witness ==
    /\ Returned("human_size")
    /\ fmt_in.bytes = <<0, 0, 0, 0, 1536>>
    /\ fmt_out = <<49, 53, 51, 54, 46, 48, 84>>

\* ------------------------------------------------------------------------
\* Vocabulary of the time field
\* ------------------------------------------------------------------------
Age == fmt_in.now - fmt_in.mtime
YearFormat == fmt_out.fmt = "%b %e  %Y"
ClockFormat == fmt_out.fmt = "%b %e %H:%M"

\* ------------------------------------------------------------------------
\* C16 as stated: a modification time exactly 15,778,800 seconds before now
\* is rendered in the year format, one 15,778,799 seconds before now in the
\* clock format.
\* ------------------------------------------------------------------------
C16_Original ==
    Returned("get_mod_time") =>
      /\ Age = HALF_YEAR => YearFormat
      /\ Age = HALF_YEAR - 1 => ClockFormat

\* C16, amended: a modification time exactly 15,778,800 seconds before now
\* is rendered in the clock format, as is one 15,778,799 seconds before
\* now; one 15,778,801 seconds before now is rendered in the year format.
C16_CutOff ==
    Returned("get_mod_time") =>
      /\ Age = HALF_YEAR => ClockFormat
      /\ Age = HALF_YEAR - 1 => ClockFormat
      /\ Age = HALF_YEAR + 1 => YearFormat

\* the age is exactly the cut-off and the clock format was used
C16_Witness ==
    /\ Returned("get_mod_time")
    /\ Age = HALF_YEAR
    /\ ClockFormat

Fits == Len(fmt_in.src) < fmt_in.max_len
PrintableAscii(c) == c >= 32 /\ c <= 126

C18_Original ==
    Returned("sanitize_string") /\ Fits =>
      /\ Len(fmt_out) = Len(fmt_in.src)
      /\ \A j \in DOMAIN fmt_in.src :
            fmt_out[j] = IF PrintableAscii(fmt_in.src[j]) THEN fmt_in.src[j]
                         ELSE 63
      /\ (\A j \in DOMAIN fmt_in.src : PrintableAscii(fmt_in.src[j]))
            => fmt_out = fmt_in.src
      /\ sanitize_string(fmt_out, fmt_in.max_len) = fmt_out

\* C18, amended: for a source shorter than the buffer limit the result has
\* the same length and keeps at its position each byte that is printable
\* in the locale in force - the bytes 0x20..0x7E in every locale, and in a
\* single-byte locale such as ISO-8859-1 the bytes 0xA0..0xFF as well - and
\* has '?' in place of every other byte (0x07 for example); in the C locale
\* the kept bytes are exactly 0x20..0x7E; a printable-ASCII string is
\* returned unchanged and sanitizing a sanitized string changes nothing.
PrintableHere(c) ==
    \/ PrintableAscii(c)
    \/ locale = "ISO-8859-1" /\ c >= 160

C18_Sanitize ==
    Returned("sanitize_string") /\ Fits =>
      /\ Len(fmt_out) = Len(fmt_in.src)
      /\ \A j \in DOMAIN fmt_in.src :
            fmt_out[j] = IF PrintableHere(fmt_in.src[j]) THEN fmt_in.src[j]
                         ELSE 63
      /\ locale = "C" =>
            \A j \in DOMAIN fmt_in.src :
               fmt_out[j] = fmt_in.src[j] <=> PrintableAscii(fmt_in.src[j])
      /\ (\A j \in DOMAIN fmt_in.src : PrintableAscii(fmt_in.src[j]))
            => fmt_out = fmt_in.src
      /\ sanitize_string(fmt_out, fmt_in.max_len) = fmt_out

\* a bell, a letter and the byte 0xE9 in ISO-8859-1: '?', the letter, 0xE9
C18_Witness ==
    /\ Returned("sanitize_string")
    /\ Fits
    /\ locale = "ISO-8859-1"
    /\ fmt_in.src = <<7, 65, 233>>
    /\ fmt_out = <<63, 65, 233>>

\* ------------------------------------------------------------------------
\* C19: with time-sorting the rendered entries of a directory are in
\* non-increasing order of modification time, adjacent entries of equal
\* time in name-collation order; without it they are in name-collation
\* order whatever their times.
\* ------------------------------------------------------------------------
\* the entry lines written so far for the directory being listed
BlockEntryLines ==
    SelectSeq(out, LAMBDA x : x.t = CurDirTag /\ x.line.kind = "entry")

InOrder(ea, eb) ==
    IF opts.sort_by_time
    THEN \/ ea.mtime > eb.mtime
         \/ ea.mtime = eb.mtime /\ strcoll(ea.name, eb.name) <= 0
    ELSE strcoll(ea.name, eb.name) <= 0

C19_RenderOrder ==
    pc \in {"render", "summary"} =>
      /\ \A j \in 1..(Len(entries) - 1) : InOrder(entries[j], entries[j + 1])
      /\ Len(BlockEntryLines) = k
      /\ \A j \in 1..k :
            BlockEntryLines[j].line.name =
               sanitize_string(entries[j].name, PATH_MAX)

\* a time-sorted listing, rendered to the end, in which two adjacent entries
\* have the same time and which is not in name order
C19_Witness ==
    /\ pc = "summary"
    /\ opts.sort_by_time
    /\ k = Len(entries)
    /\ \E j \in 1..(k - 1) : entries[j].mtime = entries[j + 1].mtime
    /\ \E j \in 1..(k - 1) : strcoll(entries[j].name, entries[j + 1].name) > 0

\* ------------------------------------------------------------------------
\* compare_entries on its own: the comparator applied, as qsort applies it,
\* to every pair out of three entries, in either sort mode
\* ------------------------------------------------------------------------
EntryNames == {<<97>>, <<97, 98>>, <<98>>}
FileEntries == [name : EntryNames, mtime : 1..MaxMtime]

InitCompare ==
    /\ opts \in [show_all : {FALSE}, sort_by_time : BOOLEAN,
                  show_help : {FALSE}, show_version : {FALSE},
                  paths : {<<PD>>}]
    /\ pc = "compare"
    /\ i = 0
    /\ result = 0
    /\ file_paths = <<>>
    /\ dir_paths = <<>>
    /\ dpos = 0
    /\ entries \in [1..3 -> FileEntries]
    /\ stats = ZeroStats
    /\ k = 0
    /\ out = <<>>
    /\ err = <<>>
    /\ sys = <<>>
    /\ init_caches
    /\ NoCall
    /\ locale \in Locales

\* compare_entries(&entries[x], &entries[y]) for every x and y
CallCompareEntries ==
    /\ pc = "compare"
    /\ fmt_out' = [x \in 1..3 |->
                     [y \in 1..3 |-> compare_entries(entries[x], entries[y])]]
    /\ pc' = "compared"
    /\ UNCHANGED <<opts, i, result, file_paths, dir_paths, dpos, entries,
                   stats, k, out, err, sys, cacheVars, hist, fmt_in, locale>>

NextCompare == CallCompareEntries

SpecCompare == InitCompare /\ [][NextCompare]_vars

\* ------------------------------------------------------------------------
\* C20: in both sort modes compare_entries is a strict weak ordering:
\* compare(a, a) = 0, compare(a, b) and compare(b, a) have opposite signs,
\* and "less than" and "compares equal" are transitive.
\* ------------------------------------------------------------------------
Sign(v) == IF v < 0 THEN -1 ELSE IF v > 0 THEN 1 ELSE 0

C20_StrictWeakOrder ==
    pc = "compared" =>
      \A x, y, z \in 1..3 :
         /\ fmt_out[x][x] = 0
         /\ Sign(fmt_out[x][y]) = 0 - Sign(fmt_out[y][x])
         /\ fmt_out[x][y] < 0 /\ fmt_out[y][z] < 0 => fmt_out[x][z] < 0
         /\ fmt_out[x][y] = 0 /\ fmt_out[y][z] = 0 => fmt_out[x][z] = 0

\* time mode, three entries of which two have the same time: the order is
\* decided once by time and once by name
C20_Witness ==
    /\ pc = "compared"
    /\ opts.sort_by_time
    /\ entries[1].mtime = entries[2].mtime
    /\ entries[2].mtime < entries[3].mtime
    /\ fmt_out[1][2] < 0 /\ fmt_out[3][1] < 0 /\ fmt_out[3][2] < 0

\* ------------------------------------------------------------------------
\* C21 as stated: two entries with identical names compare equal in name
\* mode and in time mode, whatever their modification times.
\* ------------------------------------------------------------------------
C21_Original ==
    pc = "compared" =>
      \A x, y \in 1..3 :
         entries[x].name = entries[y].name => fmt_out[x][y] = 0

\* C21, amended: two entries with identical names compare equal in name
\* mode whatever their modification times, and in time mode when their
\* modification times are equal; in time mode, of two entries with
\* identical names and different modification times the newer one compares
\* less.
C21_EqualNames ==
    pc = "compared" =>
      \A x, y \in 1..3 :
         entries[x].name = entries[y].name =>
            /\ ~opts.sort_by_time => fmt_out[x][y] = 0
            /\ entries[x].mtime = entries[y].mtime => fmt_out[x][y] = 0
            /\ opts.sort_by_time /\ entries[x].mtime > entries[y].mtime
                  => fmt_out[x][y] < 0 /\ fmt_out[y][x] > 0

\* time mode, the same name with two modification times: not equal
C21_Witness ==
    /\ pc = "compared"
    /\ opts.sort_by_time
    /\ entries[1].name = entries[2].name
    /\ entries[1].mtime > entries[2].mtime
    /\ fmt_out[1][2] < 0

\* ------------------------------------------------------------------------
\* C22 as stated: in one run every filesystem operation is attempted once
\* per object: each target path and each retained directory entry is the
\* subject of a single lstat, and no lstat, stat, opendir or readlink is
\* repeated on the same path (for the same target).
\* ------------------------------------------------------------------------
SameCall(a, b) ==
    /\ sys[a].t = sys[b].t
    /\ sys[a].call.op = sys[b].call.op
    /\ sys[a].call.path = sys[b].call.path

ProbesOf(n, path) ==
    {j \in DOMAIN sys :
        sys[j].t = n /\ sys[j].call.op = "lstat" /\ sys[j].call.path = path}

C22_SingleProbe ==
    /\ \A a, b \in DOMAIN sys : SameCall(a, b) => a = b
    /\ Ran => \A n \in TargetIdx :
                 Cardinality(ProbesOf(n, opts.paths[n])) = 1

\* ------------------------------------------------------------------------
\* C23: when the collection of a directory has ended, total_blocks is the
\* sum of the block counts of exactly the entries that passed the hidden
\* filter and whose lstat succeeded, which are the entries then rendered;
\* without show_all hidden entries, "." and ".." add nothing; rendering
\* leaves total_blocks as it is.
\* ------------------------------------------------------------------------
RECURSIVE BlocksOfNames(_, _)
BlocksOfNames(path, S) ==
    IF S = {} THEN 0
    ELSE LET nm == CHOOSE x \in S : TRUE
         IN Lstat(JoinPath(path, nm)).st.st_blocks
              + BlocksOfNames(path, S \ {nm})

RECURSIVE BlocksOfEntries(_)
BlocksOfEntries(es) ==
    IF es = <<>> THEN 0
    ELSE Head(es).st.st_blocks + BlocksOfEntries(Tail(es))

C23_TotalBlocks ==
    pc \in {"sort", "render", "summary"} =>
      /\ stats.total_blocks =
            BlocksOfNames(CurDir, Listable(CurDir, opts.show_all))
      /\ stats.total_blocks = BlocksOfEntries(entries)
      /\ {entries[j].name : j \in DOMAIN entries} =
            Listable(CurDir, opts.show_all)
      /\ \A j \in Lines(CurDirTag, "total") :
            out[j].line.n = stats.total_blocks \div 2

\* a listing without show_all, rendered to the end, of a directory whose
\* hidden entry and pseudo-entries occupy blocks that are not in the total
C23_Witness ==
    /\ pc = "summary"
    /\ ~opts.show_all
    /\ k = Len(entries) /\ k > 0
    /\ Lstat(JoinPath(CurDir, NmH)).st.st_blocks > 0
    /\ Lstat(JoinPath(CurDir, NmDot)).st.st_blocks > 0
    /\ stats.total_blocks = 16

\* ------------------------------------------------------------------------
\* C24: for each directory no entry line is written before its enumeration
\* has ended and the whole entry set is sorted; the header (when there is
\* one) and the block-total line come before the first entry line, the
\* summary (when there is one) after the last.
\* ------------------------------------------------------------------------
Before(A, B) == \A a \in A, b \in B : a < b

C24_NoOverlap ==
    /\ pc \in {"opendir", "readdir", "sort"} =>
          Lines(CurDirTag, "entry") = {}
    /\ pc = "render" =>
          /\ dpos = Len(Readdir(CurDir))
          /\ Cardinality(Lines(CurDirTag, "entry")) = k
          /\ \A j \in 1..(Len(entries) - 1) :
                compare_entries(entries[j], entries[j + 1]) <= 0
    /\ \A n \in SeqRange(dir_paths) :
          /\ Lines(n, "entry") # {} => Lines(n, "total") # {}
          /\ Before(Lines(n, "header"), Lines(n, "entry"))
          /\ Before(Lines(n, "total"), Lines(n, "entry"))
          /\ Before(Lines(n, "entry"), Lines(n, "summary"))
          /\ Before(Lines(n, "total"), Lines(n, "summary"))

\* a run that ended with a directory listed in full: its total, several
\* entry lines and its summary
C24_Witness ==
    /\ Ran
    /\ \E n \in SeqRange(dir_paths) :
          /\ Lines(n, "total") # {}
          /\ Cardinality(Lines(n, "entry")) > 1
          /\ Lines(n, "summary") # {}

\* ------------------------------------------------------------------------
\* C25: when readlink fails for a symlink the line of the entry is still
\* written in full, without the " -> target" suffix; the listing goes on
\* and the exit status is not changed by it; the suffix is on lines of
\* symlinks only.
\* ------------------------------------------------------------------------
\* a readlink made for target n failed
ReadlinkFailed(n) ==
    \E j \in DOMAIN sys :
        sys[j].t = n /\ sys[j].call.op = "readlink" /\ ~sys[j].call.ok

\* the line written for the object at path, probed as st, shown as name
LineAsExpected(line, path, name) ==
    LET st == Lstat(path).st
    IN /\ line.perms = get_permissions(st.st_mode)
       /\ line.nlink = st.st_nlink
       /\ line.name = sanitize_string(name, PATH_MAX)
       /\ line.link.ok <=> (S_ISLNK(st.st_mode) /\ Readlink(path).ok)

C25_LinkReadFailure ==
    /\ \A j \in DOMAIN out :
          out[j].line.kind = "entry" /\ out[j].line.link.ok
             => out[j].line.perms[1] = "l"
    /\ Ran =>
          /\ \A n \in SeqRange(dir_paths) :
                OpenOK(n) =>
                  /\ RenderedDir(n)
                  /\ \A nm \in Listable(opts.paths[n], opts.show_all) :
                        \E j \in Lines(n, "entry") :
                           LineAsExpected(out[j].line,
                                          JoinPath(opts.paths[n], nm), nm)
          /\ \A n \in SeqRange(file_paths) :
                \A j \in Lines(n, "entry") :
                   LineAsExpected(out[j].line, opts.paths[n], opts.paths[n])
          /\ (\A n \in TargetIdx : ~TargetFailed(n)) => result = 0

\* the listing of d: the line of r has no arrow, the line of s, written
\* later, has one, and the exit status is 0
C25_Witness ==
    /\ Ran
    /\ result = 0
    /\ \E n \in SeqRange(dir_paths), a, b \in DOMAIN out :
          /\ ReadlinkFailed(n)
          /\ a < b
          /\ out[a].t = n /\ out[b].t = n
          /\ out[a].line.kind = "entry" /\ out[b].line.kind = "entry"
          /\ out[a].line.name = NmR /\ out[a].line.perms[1] = "l"
          /\ ~out[a].line.link.ok
          /\ out[b].line.name = NmS /\ out[b].line.link.ok

\* ------------------------------------------------------------------------
\* C26: a hit leaves both rings as they were (slots, valid flags and the
\* two next-slot indices), so only misses move the rings; get_username
\* never changes the group ring and get_groupname never the user ring.
\* ------------------------------------------------------------------------
C26_HitFrame ==
    [][Len(hist') = Len(hist) + 1 =>
         LET c == hist'[Len(hist')]
         IN /\ ~c.called =>
                 UNCHANGED <<uid_cache, next_uid_slot, gid_cache, next_gid_slot>>
            /\ c.kind = "user" => UNCHANGED <<gid_cache, next_gid_slot>>
            /\ c.kind = "group" => UNCHANGED <<uid_cache, next_uid_slot>>
            /\ c.called /\ c.kind = "user" =>
                 next_uid_slot' = (next_uid_slot + 1) % CACHE_SIZE
            /\ c.called /\ c.kind = "group" =>
                 next_gid_slot' = (next_gid_slot + 1) % CACHE_SIZE]_vars

\* a user id was looked up, a group id in between, and the user id was
\* then answered from the ring: each ring has moved once
C26_Witness ==
    /\ Len(hist) = 3
    /\ hist[1].kind = "user" /\ hist[1].called
    /\ hist[2].kind = "group" /\ hist[2].called
    /\ hist[3].kind = "user" /\ hist[3].id = hist[1].id /\ ~hist[3].called
    /\ next_uid_slot = 1
    /\ next_gid_slot = 1

\* ------------------------------------------------------------------------
\* C27: a target that is a symlink, one pointing to a directory included,
\* is classified as a file, is rendered as one entry line among the file
\* targets with its link target read from the literal target path, and is
\* never enumerated as a directory.
\* ------------------------------------------------------------------------
IsLinkTarget(n) == ProbeOK(n) /\ S_ISLNK(Lstat(opts.paths[n]).st.st_mode)

CallsOf(n, op) == {j \in DOMAIN sys : sys[j].t = n /\ sys[j].call.op = op}

C27_LinkAware ==
    \A n \in TargetIdx :
       IsLinkTarget(n) =>
         /\ n \notin SeqRange(dir_paths)
         /\ CallsOf(n, "opendir") = {}
         /\ Lines(n, "header") = {} /\ Lines(n, "total") = {}
         /\ Lines(n, "summary") = {}
         /\ pc \notin {"start", "classify"}
               /\ ~opts.show_help /\ ~opts.show_version
               => n \in SeqRange(file_paths)
         /\ \A j \in CallsOf(n, "readlink") :
               sys[j].call.path = opts.paths[n]
         /\ \A j \in Lines(n, "entry") :
               /\ out[j].line.perms[1] = "l"
               /\ out[j].line.name = sanitize_string(opts.paths[n], PATH_MAX)
               /\ out[j].line.link =
                     get_link_target(opts.paths[n], PATH_MAX)
               /\ \A b \in DOMAIN out :
                     out[b].t \in SeqRange(dir_paths) => j < b
         /\ Ran /\ ~OwnFailure(n) => Cardinality(Lines(n, "entry")) = 1

\* the directory d and then l, a symlink to d: l is shown first, as a link
\* to d, and d is listed after it
C27_Witness ==
    /\ Ran
    /\ path_count = 2
    /\ opts.paths[1] = PD /\ opts.paths[2] = PL
    /\ Stat(PL).ok /\ S_ISDIR(Stat(PL).st.st_mode)
    /\ out[1].t = 2
    /\ out[1].line.link = [ok |-> TRUE, target |-> PD]
    /\ Lines(1, "total") # {}

\* ------------------------------------------------------------------------
\* C28: while a directory is rendered each entry adds 1 to at most one of
\* the four counters: a symlink to dir_symlinks when following it reaches a
\* directory and to symlinks otherwise (broken links included), a
\* directory to directories, a regular file to regular_files, any other
\* type to none.  So at the summary the four counters add up to the number
\* of rendered entries that are regular files, directories or symlinks;
\* all four are 0 before the first entry is rendered.
\* ------------------------------------------------------------------------
\* what the filesystem says of the j-th entry of the directory being listed
EntryMode(j) == Lstat(JoinPath(CurDir, entries[j].name)).st.st_mode
LinkReachesDir(j) ==
    LET t == Stat(JoinPath(CurDir, entries[j].name))
    IN t.ok /\ S_ISDIR(t.st.st_mode)

\* the entries rendered so far
Done == 1..k

C28_Counters ==
    /\ pc \in {"readdir", "sort"} \/ (pc = "render" /\ k = 0) =>
          /\ stats.regular_files = 0 /\ stats.directories = 0
          /\ stats.symlinks = 0 /\ stats.dir_symlinks = 0
    /\ pc \in {"render", "summary"} =>
          /\ stats.regular_files =
                Cardinality({j \in Done : S_ISREG(EntryMode(j))})
          /\ stats.directories =
                Cardinality({j \in Done : S_ISDIR(EntryMode(j))})
          /\ stats.dir_symlinks =
                Cardinality({j \in Done :
                               S_ISLNK(EntryMode(j)) /\ LinkReachesDir(j)})
          /\ stats.symlinks =
                Cardinality({j \in Done :
                               S_ISLNK(EntryMode(j)) /\ ~LinkReachesDir(j)})
          /\ stats.regular_files + stats.directories + stats.symlinks
                + stats.dir_symlinks =
                Cardinality({j \in Done :
                               \/ S_ISREG(EntryMode(j))
                               \/ S_ISDIR(EntryMode(j))
                               \/ S_ISLNK(EntryMode(j))})
    /\ \A n \in SeqRange(dir_paths) :
          \A j \in Lines(n, "summary") :
             out[j].line.regular_files + out[j].line.directories
               + out[j].line.symlinks + out[j].line.dir_symlinks =
               Cardinality({nm \in Listable(opts.paths[n], opts.show_all) :
                  LET m == Lstat(JoinPath(opts.paths[n], nm)).st.st_mode
                  IN S_ISREG(m) \/ S_ISDIR(m) \/ S_ISLNK(m)})

\* the end of a listing with a fifo, broken links and a link to a
\* directory among the entries: fewer counted than rendered
C28_Witness ==
    /\ pc = "summary"
    /\ k = Len(entries)
    /\ stats.regular_files > 0 /\ stats.directories > 0
    /\ stats.symlinks > 1 /\ stats.dir_symlinks > 0
    /\ stats.regular_files + stats.directories + stats.symlinks
          + stats.dir_symlinks < k

\* ------------------------------------------------------------------------
\* C29 as stated: a file-classified target is rendered or reported: when
\* its metadata cannot be read again in the file loop, either its entry
\* line is written or a diagnostic for it is and the exit status is not 0.
\* ------------------------------------------------------------------------
Reported(n) == \E j \in DOMAIN err : err[j].t = n

C29_RenderedOrReported ==
    Ran =>
      \A n \in SeqRange(file_paths) :
         \/ Lines(n, "entry") # {}
         \/ Reported(n) /\ result # 0

\* ------------------------------------------------------------------------
\* C30 as stated: for every byte count below 1024^4 the number human_size
\* prints in front of the unit suffix is, as printed, strictly less than
\* 1024 (nothing is rendered as "1024.0K").
\* ------------------------------------------------------------------------
\* the digits in front of the decimal point, or of the suffix when there
\* is no decimal
PrintedWhole ==
    IF Divisions(fmt_in.bytes) = 0
    THEN SubSeq(fmt_out, 1, Len(fmt_out) - 1)
    ELSE SubSeq(fmt_out, 1, Len(fmt_out) - 3)

C30_BelowNextUnit ==
    Returned("human_size") /\ fmt_in.bytes[5] = 0 =>
      \E v \in 0..1023 : PrintedWhole = DecDigits(v)

====
